---- MODULE Spec2Model ----
(***************************************************************************)
(* Model of GoferShell's batch download orchestrators:                     *)
(*   dlfast        src/dlfast.go           (concurrent, aria2c workers)    *)
(*   yt_batch      src/yt_batch.go:80-238  (concurrent, ytmax workers)     *)
(*   yt_seq        src/yt_batch.go:1-78    (sequential ytmax loop)         *)
(*   batch_sig     src/unnamed/part_000    (dlfast_batch, signal handling) *)
(*   batch_timeout src/unnamed/part_001    (dlfast_batch, per-URL timeout) *)
(*   batch_plain   src/unnamed/part_002    (dlfast_batch, plain loop)      *)
(* One behaviour is one run of one program; Init picks the program, the    *)
(* configured parallelism and the number of URLs.                          *)
(***************************************************************************)
EXTENDS Integers, Sequences, FiniteSets, TLC

\* ---- bounds ----
MaxTasks    == 3
MaxParallel == 2
MaxSignals  == 2
LiveTasks   == 2

Progs == {"dlfast", "yt_batch", "yt_seq", "batch_sig", "batch_timeout", "batch_plain"}
ConcurrentProgs == {"dlfast", "yt_batch"}
SignalProgs     == {"dlfast", "batch_sig", "batch_timeout"}

VARIABLES
    prog,       \* which program this run is
    P,          \* configured parallelism (-parallel / -p)
    N,          \* len(urls)
    mainpc,     \* position of the main goroutine
    idx,        \* loop variable i of main's loop over urls (1-based)
    exitCode,   \* process exit status, -1 while the process runs
    cancelled,  \* ctx.Err() == context.Canceled (ctx / mainCtx)
    sigBuf,     \* signals buffered in sigChan (capacity 1)
    sigClosed,  \* close(sigChan) has run
    notify,     \* signal.Notify registration is active
    sgpc,       \* position of the signal-listening goroutine
    sigCount,   \* interruption signals sent to the process so far
    wpc,        \* position of worker goroutine i / of task i
    werr,       \* error value a worker's command returned
    sem,        \* number of elements in the sem channel
    wg,         \* sync.WaitGroup counter
    resChan,    \* errChan / failedURLsChan contents, in send order
    failure,    \* downloadErrors / failedURLs / failure, in append order
    success,    \* success list of the dlfast_batch variants
    launched,   \* times the retrieval command of task i was started
    status,     \* reported status of task i
    child,      \* the sequential tools' child process: "none" | "running"
    dlErr,      \* dlCtx.Err() of the current URL in batch_timeout
    fname,      \* downloads[i].Filename while worker i uses it ("" if unset)
    arg,        \* input of the function under test (function harness only)
    ret         \* its result (function harness only)

vars == <<prog, P, N, mainpc, idx, exitCode, cancelled, sigBuf, sigClosed,
          notify, sgpc, sigCount, wpc, werr, sem, wg, resChan, failure,
          success, launched, status, child, dlErr, fname, arg, ret>>

\* ---- error values ----
\* An error is its message plus the sentinel it wraps (errors.Is walks the
\* %w chain; fmt.Errorf without %w wraps nothing).
NoErr       == [msg |-> "nil", wraps |-> "nil", code |-> 0]
ctxCanceled == [msg |-> "context canceled", wraps |-> "Canceled", code |-> 0]

errorsIs(err, target) == err.wraps = target

\* fmt.Errorf(format) with no %w verb
Errorf(m) == [msg |-> m, wraps |-> "nil", code |-> 0]

\* fmt.Errorf("... %d", code) with no %w verb
ErrorfD(m, c) == [msg |-> m, wraps |-> "nil", code |-> c]

\* fmt.Errorf("...: %w", err): the text of err is part of the message, and
\* errors.Is sees what err wraps
ErrorfW(m, err) ==
    [msg |-> m, wraps |-> err.wraps, code |-> err.code, inner |-> err.msg]

\* ---- results of cmd.Run ----
\* kind "nil": exit status 0; "ExitError": the process ran and did not
\* succeed (code -1: terminated by a signal); "other": could not be started.
RunOk          == [kind |-> "nil", code |-> 0]
RunExit(c)     == IF c = 0 THEN RunOk ELSE [kind |-> "ExitError", code |-> c]
RunSignaled    == [kind |-> "ExitError", code |-> -1]
RunStartFailed == [kind |-> "other", code |-> -1]

\* exit statuses the model lets each external tool return
Aria2cCodes == {0, 3}
YtmaxCodes  == {0, 1}
DlfastCodes == {0, 1, 130}
RunResults(codes) == {RunExit(c) : c \in codes} \cup {RunSignaled}

Terminated == mainpc \in {"exited", "killed", "panicked"}
Alive      == ~Terminated

\* ---- channels ----
\* A send on a channel of capacity cap holding n elements proceeds iff
\* n < cap (an unbuffered channel with no receiver never proceeds).
chanCanSend_offByOne(n, cap) == n <= cap

chanCanSend(n, cap) == n < cap

Init ==
    /\ prog \in Progs
    /\ N \in 1..MaxTasks
    /\ P \in (IF prog \in ConcurrentProgs THEN (-1)..MaxParallel ELSE {1})
    /\ mainpc = CASE prog = "dlfast"   -> "make"
                  [] prog = "yt_batch" -> "flags"
                  [] prog \in {"yt_seq", "batch_plain"} -> "loop"
                  [] OTHER -> "check"
    /\ idx = 1
    /\ exitCode = -1
    /\ cancelled = FALSE
    /\ sigBuf = 0
    /\ sigClosed = FALSE
    /\ notify = (prog \in SignalProgs)
    /\ sgpc = IF prog \in SignalProgs THEN "wait" ELSE "none"
    /\ sigCount = 0
    /\ wpc = [i \in 1..N |-> "unspawned"]
    /\ werr = [i \in 1..N |-> NoErr]
    /\ sem = 0
    /\ wg = 0
    /\ resChan = <<>>
    /\ failure = <<>>
    /\ success = <<>>
    /\ launched = [i \in 1..N |-> 0]
    /\ status = [i \in 1..N |-> "pending"]
    /\ child = "none"
    /\ dlErr = "nil"
    /\ fname = [i \in 1..N |-> ""]
    /\ arg = <<>>
    /\ ret = <<>>

\* ======================================================================
\* Signals (dlfast.go:509-520, part_000:65-80, part_001:70-84)
\* ======================================================================

Interrupt_fullBufferKills ==
    /\ Alive
    /\ sigCount < MaxSignals
    /\ sigCount' = sigCount + 1
    /\ IF notify /\ chanCanSend(sigBuf, 1)
         THEN /\ sigBuf' = sigBuf + 1
              /\ UNCHANGED mainpc
         ELSE /\ mainpc' = "killed"
              /\ UNCHANGED sigBuf
    /\ UNCHANGED <<prog, P, N, idx, exitCode, cancelled, sigClosed, notify,
                   sgpc, wpc, werr, sem, wg, resChan, failure,
                   success, launched, status, child, dlErr,
                   fname, arg, ret>>

\* The OS delivers SIGINT/SIGTERM to the process.  With signal.Notify
\* registered the runtime does a non-blocking send on sigChan (capacity 1:
\* a signal arriving while one is buffered is dropped); with no handler
\* registered the default action terminates the process.
Interrupt ==
    /\ Alive
    /\ sigCount < MaxSignals
    /\ sigCount' = sigCount + 1
    /\ IF notify
         THEN /\ sigBuf' = IF chanCanSend(sigBuf, 1) THEN sigBuf + 1 ELSE sigBuf
              /\ UNCHANGED mainpc
         ELSE /\ mainpc' = "killed"
              /\ UNCHANGED sigBuf
    /\ UNCHANGED <<prog, P, N, idx, exitCode, cancelled, sigClosed, notify,
                   sgpc, wpc, werr, sem, wg, resChan, failure, success,
                   launched, status, child, dlErr,
                   fname, arg, ret>>

\* The goroutine's receive "<-sigChan": ready when a signal is buffered, and
\* also when the channel has been closed (the receive then yields nil).
sigRecvReady == sigBuf > 0 \/ sigClosed

SignalReceive ==
    /\ Alive
    /\ sgpc = "wait"
    /\ sigRecvReady
    /\ sigBuf' = IF sigBuf > 0 THEN sigBuf - 1 ELSE 0
    /\ sgpc' = "got"
    /\ UNCHANGED <<prog, P, N, mainpc, idx, exitCode, cancelled, sigClosed,
                   notify, sigCount, wpc, werr, sem, wg, resChan, failure,
                   success, launched, status, child, dlErr,
                   fname, arg, ret>>

\* cancel() / mainCancel() called by the goroutine after its message.
\* dlCtx is derived from mainCtx: a live dlCtx becomes Canceled with it.
SignalCancel ==
    /\ Alive
    /\ sgpc = "got"
    /\ cancelled' = TRUE
    /\ dlErr' = IF prog = "batch_timeout" /\ child = "running" /\ dlErr = "nil"
                  THEN "Canceled" ELSE dlErr
    /\ sgpc' = "done"
    /\ UNCHANGED <<prog, P, N, mainpc, idx, exitCode, sigBuf, sigClosed,
                   notify, sigCount, wpc, werr, sem, wg, resChan, failure,
                   success, launched, status, child,
                   fname, arg, ret>>

\* ======================================================================
\* dlfast (src/dlfast.go)
\* ======================================================================

downloadFileResult_codesSwapped(res, ctxCancelled) ==
    IF res.kind = "nil" THEN NoErr
    ELSE IF ctxCancelled THEN ctxCanceled
    ELSE IF res.kind = "ExitError" THEN
        CASE res.code = 9  -> Errorf("file not found or access denied")
          [] res.code = 3  -> Errorf("not enough disk space available")
          [] res.code = 28 -> Errorf("network timeout or connection refused")
          [] OTHER         -> ErrorfD("aria2c failed with exit code %d", res.code)
    ELSE Errorf("aria2c execution failed")

\* downloadFile's mapping of cmd.Run's result to its return value.
downloadFileResult(res, ctxCancelled) ==
    IF res.kind = "nil" THEN NoErr
    ELSE IF ctxCancelled THEN ctxCanceled
    ELSE IF res.kind = "ExitError" THEN
        CASE res.code = 3  -> Errorf("file not found or access denied")
          [] res.code = 9  -> Errorf("not enough disk space available")
          [] res.code = 28 -> Errorf("network timeout or connection refused")
          [] OTHER         -> ErrorfD("aria2c failed with exit code %d", res.code)
    ELSE Errorf("aria2c execution failed")

\* sem := make(chan struct{}, config.ParallelDownloads): a negative size
\* panics (makechan: size out of range).
dlfast_make ==
    /\ prog = "dlfast" /\ mainpc = "make"
    /\ IF P < 0
         THEN mainpc' = "panicked" /\ exitCode' = 2
         ELSE mainpc' = "spawn" /\ UNCHANGED exitCode
    /\ UNCHANGED <<prog, P, N, idx, cancelled, sigBuf, sigClosed, notify,
                   sgpc, sigCount, wpc, werr, sem, wg, resChan, failure,
                   success, launched, status, child, dlErr,
                   fname, arg, ret>>

\* one iteration of "for i := range downloads": wg.Add(1); go func(i)
dlfast_spawn ==
    /\ prog = "dlfast" /\ mainpc = "spawn"
    /\ wg' = wg + 1
    /\ wpc' = [wpc EXCEPT ![idx] = "acquire"]
    /\ idx' = idx + 1
    /\ mainpc' = IF idx = N THEN "wait" ELSE "spawn"
    /\ UNCHANGED <<prog, P, N, exitCode, cancelled, sigBuf, sigClosed, notify,
                   sgpc, sigCount, werr, sem, resChan, failure, success,
                   launched, status, child, dlErr,
                   fname, arg, ret>>

\* sem <- struct{}{}
dlfast_acquire(i) ==
    /\ prog = "dlfast" /\ Alive
    /\ wpc[i] = "acquire"
    /\ chanCanSend(sem, P)
    /\ sem' = sem + 1
    /\ wpc' = [wpc EXCEPT ![i] = "probe"]
    /\ status' = [status EXCEPT ![i] = "running"]
    /\ UNCHANGED <<prog, P, N, mainpc, idx, exitCode, cancelled, sigBuf,
                   sigClosed, notify, sgpc, sigCount, werr, wg, resChan,
                   failure, success, launched, child, dlErr,
                   fname, arg, ret>>

\* the name downloadFile settles on: detectFilename's result (taken from
\* Content-Disposition or from the URL), or after any detectFilename error
\* the fallback inferFilenameFromURL(item.URL)
chosenFilename(probeErr) == IF probeErr THEN "fallback" ELSE "detected"

dlfast_probe_failsTask(i) ==
    /\ prog = "dlfast" /\ Alive
    /\ wpc[i] = "probe"
    /\ \E probeErr \in (IF cancelled THEN {TRUE} ELSE BOOLEAN) :
         IF probeErr
           THEN /\ werr' = [werr EXCEPT ![i] = Errorf("HTTP HEAD request")]
                /\ wpc' = [wpc EXCEPT ![i] = "ret"]
                /\ UNCHANGED fname
           ELSE /\ fname' = [fname EXCEPT ![i] = chosenFilename(probeErr)]
                /\ wpc' = [wpc EXCEPT ![i] = "start"]
                /\ UNCHANGED werr
    /\ UNCHANGED <<prog, P, N, mainpc, idx, exitCode, cancelled, sigBuf,
                   sigClosed, notify, sgpc, sigCount, sem, wg, resChan,
                   failure, success, launched, status, child, dlErr,
                   arg, ret>>

\* downloadFile up to args: detectFilename (a HEAD request under ctx, which
\* fails when ctx is cancelled), on error inferFilenameFromURL
dlfast_probe(i) ==
    /\ prog = "dlfast" /\ Alive
    /\ wpc[i] = "probe"
    /\ \E probeErr \in (IF cancelled THEN {TRUE} ELSE BOOLEAN) :
         fname' = [fname EXCEPT ![i] = chosenFilename(probeErr)]
    /\ wpc' = [wpc EXCEPT ![i] = "start"]
    /\ UNCHANGED <<prog, P, N, mainpc, idx, exitCode, cancelled, sigBuf,
                   sigClosed, notify, sgpc, sigCount, werr, sem, wg, resChan,
                   failure, success, launched, status, child, dlErr,
                   arg, ret>>

\* cmd.Run() of exec.CommandContext(ctx, "aria2c"): Start returns ctx.Err()
\* without starting a process when ctx is already done; otherwise the
\* process starts, or cannot be started.
dlfast_start(i) ==
    /\ prog = "dlfast" /\ Alive
    /\ wpc[i] = "start"
    /\ IF cancelled
         THEN /\ werr' = [werr EXCEPT ![i] = downloadFileResult(RunStartFailed, TRUE)]
              /\ wpc' = [wpc EXCEPT ![i] = "ret"]
              /\ fname' = [fname EXCEPT ![i] = ""]
              /\ UNCHANGED launched
         ELSE \/ /\ launched' = [launched EXCEPT ![i] = @ + 1]
                 /\ wpc' = [wpc EXCEPT ![i] = "run"]
                 /\ UNCHANGED <<werr, fname>>
              \/ /\ werr' = [werr EXCEPT ![i] = downloadFileResult(RunStartFailed, FALSE)]
                 /\ wpc' = [wpc EXCEPT ![i] = "ret"]
                 /\ fname' = [fname EXCEPT ![i] = ""]
                 /\ UNCHANGED launched
    /\ UNCHANGED <<prog, P, N, mainpc, idx, exitCode, cancelled, sigBuf,
                   sigClosed, notify, sgpc, sigCount, sem, wg, resChan,
                   failure, success, status, child, dlErr, arg, ret>>

\* cmd.Run() returns: aria2c exited by itself, or was killed (by the
\* context on cancellation, or from outside).  downloadFile returns, after
\* which downloads[i].Filename is not read again and is no longer tracked.
dlfast_cmdExit(i) ==
    /\ prog = "dlfast" /\ Alive
    /\ wpc[i] = "run"
    /\ \E res \in RunResults(Aria2cCodes) :
         werr' = [werr EXCEPT ![i] = downloadFileResult(res, cancelled)]
    /\ wpc' = [wpc EXCEPT ![i] = "ret"]
    /\ fname' = [fname EXCEPT ![i] = ""]
    /\ UNCHANGED <<prog, P, N, mainpc, idx, exitCode, cancelled, sigBuf,
                   sigClosed, notify, sgpc, sigCount, sem, wg, resChan,
                   failure, success, launched, status, child, dlErr,
                   arg, ret>>

dlfast_ret_keepsSlot(i) ==
    /\ prog = "dlfast" /\ Alive
    /\ wpc[i] = "ret"
    /\ IF werr[i] = NoErr
         THEN /\ status' = [status EXCEPT ![i] = "succeeded"]
              /\ UNCHANGED resChan
         ELSE IF errorsIs(werr[i], "Canceled")
         THEN /\ status' = [status EXCEPT ![i] = "cancelled"]
              /\ UNCHANGED resChan
         ELSE /\ chanCanSend(Len(resChan), N)
              /\ resChan' = Append(resChan,
                     [index |-> i, err |-> ErrorfW("download %d failed: %w", werr[i])])
              /\ status' = [status EXCEPT ![i] = "failed"]
    /\ werr' = [werr EXCEPT ![i] = NoErr]
    /\ wg' = wg - 1
    /\ wpc' = [wpc EXCEPT ![i] = "done"]
    /\ UNCHANGED <<prog, P, N, mainpc, idx, exitCode, cancelled, sigBuf,
                   sigClosed, notify, sgpc, sigCount, failure, success,
                   launched, child, dlErr, fname, arg, ret, sem>>

\* the worker after downloadFile returned: report, then the deferred
\* semaphore release and wg.Done().  The worker's err is not read again
\* after this point and is no longer tracked.
dlfast_ret(i) ==
    /\ prog = "dlfast" /\ Alive
    /\ wpc[i] = "ret"
    /\ IF werr[i] = NoErr
         THEN /\ status' = [status EXCEPT ![i] = "succeeded"]
              /\ UNCHANGED resChan
         ELSE IF errorsIs(werr[i], "Canceled")
         THEN /\ status' = [status EXCEPT ![i] = "cancelled"]
              /\ UNCHANGED resChan
         ELSE /\ chanCanSend(Len(resChan), N)
              /\ resChan' = Append(resChan,
                     [index |-> i, err |-> ErrorfW("download %d failed: %w", werr[i])])
              /\ status' = [status EXCEPT ![i] = "failed"]
    /\ werr' = [werr EXCEPT ![i] = NoErr]
    /\ sem' = sem - 1
    /\ wg' = wg - 1
    /\ wpc' = [wpc EXCEPT ![i] = "done"]
    /\ UNCHANGED <<prog, P, N, mainpc, idx, exitCode, cancelled, sigBuf,
                   sigClosed, notify, sgpc, sigCount, failure, success,
                   launched, child, dlErr, fname, arg, ret>>

dlfast_wait_noJoin ==
    /\ prog = "dlfast" /\ mainpc = "wait"
    /\ failure' = resChan
    /\ resChan' = <<>>
    /\ mainpc' = "check"
    /\ UNCHANGED <<prog, P, N, idx, exitCode, cancelled, sigBuf, sigClosed,
                   notify, sgpc, sigCount, wpc, werr, sem, wg, success,
                   launched, status, child, dlErr,
                   fname, arg, ret>>

\* wg.Wait(); close(errChan); for err := range errChan { append }
dlfast_wait ==
    /\ prog = "dlfast" /\ mainpc = "wait"
    /\ wg = 0
    /\ failure' = resChan
    /\ resChan' = <<>>
    /\ mainpc' = "check"
    /\ UNCHANGED <<prog, P, N, idx, exitCode, cancelled, sigBuf, sigClosed,
                   notify, sgpc, sigCount, wpc, werr, sem, wg, success,
                   launched, status, child, dlErr,
                   fname, arg, ret>>

\* runDownloads' return value
runDownloadsResult(ctxCancelled, downloadErrors) ==
    IF ctxCancelled THEN Errorf("downloads cancelled by user")
    ELSE IF Len(downloadErrors) > 0 THEN Errorf("some downloads failed: %v")
    ELSE NoErr

\* main's handling of runDownloads' return value
dlfastExitCode(err) ==
    IF err # NoErr
      THEN IF errorsIs(err, "Canceled") THEN 130 ELSE 1
      ELSE 0

\* runDownloads returns and main exits
dlfast_return ==
    /\ prog = "dlfast" /\ mainpc = "check"
    /\ exitCode' = dlfastExitCode(runDownloadsResult(cancelled, failure))
    /\ mainpc' = "exited"
    /\ UNCHANGED <<prog, P, N, idx, cancelled, sigBuf, sigClosed, notify,
                   sgpc, sigCount, wpc, werr, sem, wg, resChan, failure,
                   success, launched, status, child, dlErr,
                   fname, arg, ret>>

dlfast_worker(i) ==
    \/ dlfast_acquire(i)
    \/ dlfast_probe(i)
    \/ dlfast_start(i)
    \/ dlfast_cmdExit(i)
    \/ dlfast_ret(i)

\* ======================================================================
\* yt_batch, concurrent version (src/yt_batch.go:80-238)
\* ======================================================================

\* if parallel < 1 { fatalf(...) }
yt_flags ==
    /\ prog = "yt_batch" /\ mainpc = "flags"
    /\ IF P < 1
         THEN mainpc' = "exited" /\ exitCode' = 1
         ELSE mainpc' = "spawn" /\ UNCHANGED exitCode
    /\ UNCHANGED <<prog, P, N, idx, cancelled, sigBuf, sigClosed, notify,
                   sgpc, sigCount, wpc, werr, sem, wg, resChan, failure,
                   success, launched, status, child, dlErr,
                   fname, arg, ret>>

\* one iteration of main's loop: wg.Add(1); sem <- struct{}{}; go downloadURL
yt_spawn ==
    /\ prog = "yt_batch" /\ mainpc = "spawn"
    /\ chanCanSend(sem, P)
    /\ sem' = sem + 1
    /\ wg' = wg + 1
    /\ wpc' = [wpc EXCEPT ![idx] = "start"]
    /\ status' = [status EXCEPT ![idx] = "running"]
    /\ idx' = idx + 1
    /\ mainpc' = IF idx = N THEN "wait" ELSE "spawn"
    /\ UNCHANGED <<prog, P, N, exitCode, cancelled, sigBuf, sigClosed, notify,
                   sgpc, sigCount, werr, resChan, failure, success, launched,
                   child, dlErr,
                   fname, arg, ret>>

\* downloadURL: cmd.Run() of exec.Command("ytmax") starts the process, or
\* fails to
yt_start(i) ==
    /\ prog = "yt_batch" /\ Alive
    /\ wpc[i] = "start"
    /\ \/ /\ launched' = [launched EXCEPT ![i] = @ + 1]
          /\ wpc' = [wpc EXCEPT ![i] = "run"]
          /\ UNCHANGED werr
       \/ /\ werr' = [werr EXCEPT ![i] = Errorf("exec")]
          /\ wpc' = [wpc EXCEPT ![i] = "ret"]
          /\ UNCHANGED launched
    /\ UNCHANGED <<prog, P, N, mainpc, idx, exitCode, cancelled, sigBuf,
                   sigClosed, notify, sgpc, sigCount, sem, wg, resChan,
                   failure, success, status, child, dlErr,
                   fname, arg, ret>>

\* downloadURL: cmd.Run() returns
yt_cmdExit(i) ==
    /\ prog = "yt_batch" /\ Alive
    /\ wpc[i] = "run"
    /\ \E res \in RunResults(YtmaxCodes) :
         werr' = [werr EXCEPT ![i] =
                    IF res.kind = "nil" THEN NoErr ELSE ErrorfD("exit status", res.code)]
    /\ wpc' = [wpc EXCEPT ![i] = "ret"]
    /\ UNCHANGED <<prog, P, N, mainpc, idx, exitCode, cancelled, sigBuf,
                   sigClosed, notify, sgpc, sigCount, sem, wg, resChan,
                   failure, success, launched, status, child, dlErr,
                   fname, arg, ret>>

yt_ret_keepsSlot(i) ==
    /\ prog = "yt_batch" /\ Alive
    /\ wpc[i] = "ret"
    /\ IF werr[i] = NoErr
         THEN /\ status' = [status EXCEPT ![i] = "succeeded"]
              /\ UNCHANGED resChan
         ELSE /\ chanCanSend(Len(resChan), N)
              /\ resChan' = Append(resChan, [index |-> i, err |-> werr[i]])
              /\ status' = [status EXCEPT ![i] = "failed"]
    /\ werr' = [werr EXCEPT ![i] = NoErr]
    /\ wg' = wg - 1
    /\ wpc' = [wpc EXCEPT ![i] = "done"]
    /\ UNCHANGED <<prog, P, N, mainpc, idx, exitCode, cancelled, sigBuf,
                   sigClosed, notify, sgpc, sigCount, failure, success,
                   launched, child, dlErr, sem,
                   fname, arg, ret>>

yt_ret_sendsTwice(i) ==
    /\ prog = "yt_batch" /\ Alive
    /\ wpc[i] = "ret"
    /\ IF werr[i] = NoErr
         THEN /\ status' = [status EXCEPT ![i] = "succeeded"]
              /\ UNCHANGED resChan
         ELSE /\ chanCanSend(Len(resChan), N)
              /\ resChan' = resChan \o << [index |-> i, err |-> werr[i]],
                                          [index |-> i, err |-> werr[i]] >>
              /\ status' = [status EXCEPT ![i] = "failed"]
    /\ werr' = [werr EXCEPT ![i] = NoErr]
    /\ sem' = sem - 1
    /\ wg' = wg - 1
    /\ wpc' = [wpc EXCEPT ![i] = "done"]
    /\ UNCHANGED <<prog, P, N, mainpc, idx, exitCode, cancelled, sigBuf,
                   sigClosed, notify, sgpc, sigCount, failure, success,
                   launched, child, dlErr,
                   fname, arg, ret>>

\* downloadURL: failedURLsChan <- url on error, then the deferred
\* semaphore release and wg.Done()
yt_ret(i) ==
    /\ prog = "yt_batch" /\ Alive
    /\ wpc[i] = "ret"
    /\ IF werr[i] = NoErr
         THEN /\ status' = [status EXCEPT ![i] = "succeeded"]
              /\ UNCHANGED resChan
         ELSE /\ chanCanSend(Len(resChan), N)
              /\ resChan' = Append(resChan, [index |-> i, err |-> werr[i]])
              /\ status' = [status EXCEPT ![i] = "failed"]
    /\ werr' = [werr EXCEPT ![i] = NoErr]
    /\ sem' = sem - 1
    /\ wg' = wg - 1
    /\ wpc' = [wpc EXCEPT ![i] = "done"]
    /\ UNCHANGED <<prog, P, N, mainpc, idx, exitCode, cancelled, sigBuf,
                   sigClosed, notify, sgpc, sigCount, failure, success,
                   launched, child, dlErr,
                   fname, arg, ret>>

\* wg.Wait(); close(failedURLsChan); for url := range failedURLsChan
yt_wait ==
    /\ prog = "yt_batch" /\ mainpc = "wait"
    /\ wg = 0
    /\ failure' = resChan
    /\ resChan' = <<>>
    /\ mainpc' = "summary"
    /\ UNCHANGED <<prog, P, N, idx, exitCode, cancelled, sigBuf, sigClosed,
                   notify, sgpc, sigCount, wpc, werr, sem, wg, success,
                   launched, status, child, dlErr,
                   fname, arg, ret>>

\* the summary is printed and main returns: the exit status of a Go
\* program whose main returns is 0
yt_summary ==
    /\ prog = "yt_batch" /\ mainpc = "summary"
    /\ exitCode' = 0
    /\ mainpc' = "exited"
    /\ UNCHANGED <<prog, P, N, idx, cancelled, sigBuf, sigClosed, notify,
                   sgpc, sigCount, wpc, werr, sem, wg, resChan, failure,
                   success, launched, status, child, dlErr,
                   fname, arg, ret>>

yt_worker(i) ==
    \/ yt_start(i)
    \/ yt_cmdExit(i)
    \/ yt_ret(i)

\* ======================================================================
\* yt_batch, sequential version (src/yt_batch.go:1-78)
\* ======================================================================

\* loop body up to cmd.Run() starting ytmax for urlList[idx]
seq_launch ==
    /\ prog = "yt_seq" /\ mainpc = "loop"
    /\ \/ /\ launched' = [launched EXCEPT ![idx] = @ + 1]
          /\ status' = [status EXCEPT ![idx] = "running"]
          /\ child' = "running"
          /\ mainpc' = "wait"
          /\ UNCHANGED <<failure, idx>>
       \/ /\ failure' = Append(failure, [index |-> idx, err |-> Errorf("exec")])
          /\ status' = [status EXCEPT ![idx] = "failed"]
          /\ idx' = idx + 1
          /\ mainpc' = IF idx = N THEN "summary" ELSE "loop"
          /\ UNCHANGED <<launched, child>>
    /\ UNCHANGED <<prog, P, N, exitCode, cancelled, sigBuf, sigClosed, notify,
                   sgpc, sigCount, wpc, werr, sem, wg, resChan, success, dlErr,
                   fname, arg, ret>>

\* cmd.Run() returns; on error the URL is appended to failedURLs
seq_wait ==
    /\ prog = "yt_seq" /\ mainpc = "wait"
    /\ \E res \in RunResults(YtmaxCodes) :
         IF res.kind = "nil"
           THEN /\ status' = [status EXCEPT ![idx] = "succeeded"]
                /\ UNCHANGED failure
           ELSE /\ status' = [status EXCEPT ![idx] = "failed"]
                /\ failure' = Append(failure,
                       [index |-> idx, err |-> ErrorfD("exit status", res.code)])
    /\ child' = "none"
    /\ idx' = idx + 1
    /\ mainpc' = IF idx = N THEN "summary" ELSE "loop"
    /\ UNCHANGED <<prog, P, N, exitCode, cancelled, sigBuf, sigClosed, notify,
                   sgpc, sigCount, wpc, werr, sem, wg, resChan, success,
                   launched, dlErr,
                   fname, arg, ret>>

\* failed URLs are printed and main returns
seq_summary ==
    /\ prog = "yt_seq" /\ mainpc = "summary"
    /\ exitCode' = 0
    /\ mainpc' = "exited"
    /\ UNCHANGED <<prog, P, N, idx, cancelled, sigBuf, sigClosed, notify,
                   sgpc, sigCount, wpc, werr, sem, wg, resChan, failure,
                   success, launched, status, child, dlErr,
                   fname, arg, ret>>

\* ======================================================================
\* dlfast_batch, plain loop (src/unnamed/part_002)
\* ======================================================================

\* the failure entry of part_002 for a cmd.Run error
plainFailure(i, res) ==
    IF res.kind = "ExitError"
      THEN [url |-> i, reason |-> "exit %d", code |-> res.code]
      ELSE [url |-> i, reason |-> "error: %v", code |-> 0]

plain_launch ==
    /\ prog = "batch_plain" /\ mainpc = "loop"
    /\ \/ /\ launched' = [launched EXCEPT ![idx] = @ + 1]
          /\ status' = [status EXCEPT ![idx] = "running"]
          /\ child' = "running"
          /\ mainpc' = "wait"
          /\ UNCHANGED <<failure, idx>>
       \/ /\ failure' = Append(failure, plainFailure(idx, RunStartFailed))
          /\ status' = [status EXCEPT ![idx] = "failed"]
          /\ idx' = idx + 1
          /\ mainpc' = IF idx = N THEN "summary" ELSE "loop"
          /\ UNCHANGED <<launched, child>>
    /\ UNCHANGED <<prog, P, N, exitCode, cancelled, sigBuf, sigClosed, notify,
                   sgpc, sigCount, wpc, werr, sem, wg, resChan, success, dlErr,
                   fname, arg, ret>>

plain_wait_breaksOnFailure ==
    /\ prog = "batch_plain" /\ mainpc = "wait"
    /\ \E res \in RunResults(DlfastCodes) :
         IF res.kind = "nil"
           THEN /\ status' = [status EXCEPT ![idx] = "succeeded"]
                /\ success' = Append(success, idx)
                /\ mainpc' = IF idx = N THEN "summary" ELSE "loop"
                /\ UNCHANGED failure
           ELSE /\ status' = [status EXCEPT ![idx] = "failed"]
                /\ failure' = Append(failure, plainFailure(idx, res))
                /\ mainpc' = "summary"
                /\ UNCHANGED success
    /\ child' = "none"
    /\ idx' = idx + 1
    /\ UNCHANGED <<prog, P, N, exitCode, cancelled, sigBuf, sigClosed, notify,
                   sgpc, sigCount, wpc, werr, sem, wg, resChan, launched, dlErr,
                   fname, arg, ret>>

\* cmd.Run() returns and the result is recorded; the loop goes on to the
\* next URL whatever the result
plain_wait ==
    /\ prog = "batch_plain" /\ mainpc = "wait"
    /\ \E res \in RunResults(DlfastCodes) :
         IF res.kind = "nil"
           THEN /\ status' = [status EXCEPT ![idx] = "succeeded"]
                /\ success' = Append(success, idx)
                /\ UNCHANGED failure
           ELSE /\ status' = [status EXCEPT ![idx] = "failed"]
                /\ failure' = Append(failure, plainFailure(idx, res))
                /\ UNCHANGED success
    /\ child' = "none"
    /\ idx' = idx + 1
    /\ mainpc' = IF idx = N THEN "summary" ELSE "loop"
    /\ UNCHANGED <<prog, P, N, exitCode, cancelled, sigBuf, sigClosed, notify,
                   sgpc, sigCount, wpc, werr, sem, wg, resChan, launched, dlErr,
                   fname, arg, ret>>

plain_summary ==
    /\ prog = "batch_plain" /\ mainpc = "summary"
    /\ exitCode' = IF Len(failure) > 0 THEN 1 ELSE 0
    /\ mainpc' = "exited"
    /\ UNCHANGED <<prog, P, N, idx, cancelled, sigBuf, sigClosed, notify,
                   sgpc, sigCount, wpc, werr, sem, wg, resChan, failure,
                   success, launched, status, child, dlErr,
                   fname, arg, ret>>

\* ======================================================================
\* dlfast_batch with signal handling (src/unnamed/part_000)
\* ======================================================================

skippedFrom_fromFirst(i, n, why) ==
    [k \in 1..n |-> [url |-> k, reason |-> why, code |-> 0]]

skippedFrom_afterCurrent(i, n, why) ==
    [k \in 1..(n - i) |-> [url |-> i + k, reason |-> why, code |-> 0]]

\* the entries appended for urls[i..len(urls)-1] when the batch is abandoned
skippedFrom(i, n, why) ==
    [k \in 1..(n - i + 1) |-> [url |-> i + k - 1, reason |-> why, code |-> 0]]

\* the failure entry for a cmd.Run error (part_000:107-124)
sigFailure(i, res, ctxCancelled) ==
    IF res.kind = "ExitError"
      THEN IF res.code = -1
             THEN [url |-> i, reason |-> "dlfast process terminated by signal", code |-> 0]
           ELSE IF res.code = 130 /\ ctxCancelled
             THEN [url |-> i, reason |-> "download interrupted, dlfast exited 130", code |-> 130]
           ELSE [url |-> i, reason |-> "dlfast process exited with code", code |-> res.code]
      ELSE [url |-> i, reason |-> "error running dlfast process", code |-> 0]

\* top of the loop body: if mainCtx.Err() != nil { skip the rest; break }
sig_check ==
    /\ prog = "batch_sig" /\ mainpc = "check"
    /\ IF cancelled
         THEN /\ failure' = failure \o skippedFrom(idx, N, "skipped due to interruption")
              /\ status' = [j \in 1..N |-> IF j >= idx THEN "skipped" ELSE status[j]]
              /\ mainpc' = "stop"
         ELSE /\ mainpc' = "launch"
              /\ UNCHANGED <<failure, status>>
    /\ UNCHANGED <<prog, P, N, idx, exitCode, cancelled, sigBuf, sigClosed,
                   notify, sgpc, sigCount, wpc, werr, sem, wg, resChan,
                   success, launched, child, dlErr,
                   fname, arg, ret>>

\* cmd.Run() of exec.Command("dlfast") starts the process, or fails to
sig_launch ==
    /\ prog = "batch_sig" /\ mainpc = "launch"
    /\ \/ /\ launched' = [launched EXCEPT ![idx] = @ + 1]
          /\ status' = [status EXCEPT ![idx] = "running"]
          /\ child' = "running"
          /\ mainpc' = "wait"
          /\ UNCHANGED <<failure, idx>>
       \/ /\ failure' = Append(failure, sigFailure(idx, RunStartFailed, cancelled))
          /\ status' = [status EXCEPT ![idx] = "failed"]
          /\ idx' = idx + 1
          /\ mainpc' = IF idx = N THEN "stop" ELSE "check"
          /\ UNCHANGED <<launched, child>>
    /\ UNCHANGED <<prog, P, N, exitCode, cancelled, sigBuf, sigClosed, notify,
                   sgpc, sigCount, wpc, werr, sem, wg, resChan, success, dlErr,
                   fname, arg, ret>>

\* cmd.Run() returns and the result is recorded
sig_wait ==
    /\ prog = "batch_sig" /\ mainpc = "wait"
    /\ \E res \in RunResults(DlfastCodes) :
         IF res.kind = "nil"
           THEN /\ status' = [status EXCEPT ![idx] = "succeeded"]
                /\ success' = Append(success, idx)
                /\ UNCHANGED failure
           ELSE /\ status' = [status EXCEPT ![idx] = "failed"]
                /\ failure' = Append(failure, sigFailure(idx, res, cancelled))
                /\ UNCHANGED success
    /\ child' = "none"
    /\ idx' = idx + 1
    /\ mainpc' = IF idx = N THEN "stop" ELSE "check"
    /\ UNCHANGED <<prog, P, N, exitCode, cancelled, sigBuf, sigClosed, notify,
                   sgpc, sigCount, wpc, werr, sem, wg, resChan, launched, dlErr,
                   fname, arg, ret>>

\* signal.Stop(sigChan); close(sigChan)
sig_stop ==
    /\ prog = "batch_sig" /\ mainpc = "stop"
    /\ notify' = FALSE
    /\ sigClosed' = TRUE
    /\ mainpc' = "summary"
    /\ UNCHANGED <<prog, P, N, idx, exitCode, cancelled, sigBuf, sgpc,
                   sigCount, wpc, werr, sem, wg, resChan, failure, success,
                   launched, status, child, dlErr,
                   fname, arg, ret>>

\* exit status chosen after the summary (part_000:146-156)
sigExitCode(ctxCancelled, nFailure) ==
    IF ctxCancelled THEN 130
    ELSE IF nFailure > 0 THEN 1
    ELSE 0

\* the summary is printed, then mainCtx.Err() is read and the process exits
sig_summary ==
    /\ prog = "batch_sig" /\ mainpc = "summary"
    /\ exitCode' = sigExitCode(cancelled, Len(failure))
    /\ mainpc' = "exited"
    /\ UNCHANGED <<prog, P, N, idx, cancelled, sigBuf, sigClosed, notify,
                   sgpc, sigCount, wpc, werr, sem, wg, resChan, failure,
                   success, launched, status, child, dlErr,
                   fname, arg, ret>>

\* ======================================================================
\* dlfast_batch with per-URL timeout (src/unnamed/part_001)
\* ======================================================================

\* the failure entry for a cmd.Run error, given dlCtx.Err() as read after
\* dlCancel() (part_001:116-129)
timeoutFailure(i, res, dlCtxErr) ==
    IF dlCtxErr = "DeadlineExceeded"
      THEN [url |-> i, reason |-> "failed: download timed out", code |-> 0]
    ELSE IF dlCtxErr = "Canceled"
      THEN [url |-> i, reason |-> "failed: download cancelled as part of batch interruption", code |-> 0]
    ELSE IF res.kind = "ExitError"
      THEN IF res.code = -1
             THEN [url |-> i, reason |-> "failed: dlfast process terminated by signal", code |-> 0]
             ELSE [url |-> i, reason |-> "failed: dlfast exited with code", code |-> res.code]
    ELSE [url |-> i, reason |-> "failed: error running dlfast", code |-> 0]

\* dlCancel(): cancels dlCtx unless it is already done
dlCancel(e) == IF e = "nil" THEN "Canceled" ELSE e

\* top of the loop body: if mainCtx.Err() != nil { skip the rest; break }
to_check ==
    /\ prog = "batch_timeout" /\ mainpc = "check"
    /\ IF cancelled
         THEN /\ failure' = failure \o skippedFrom(idx, N, "skipped due to batch interruption")
              /\ status' = [j \in 1..N |-> IF j >= idx THEN "skipped" ELSE status[j]]
              /\ mainpc' = "stop"
         ELSE /\ mainpc' = "launch"
              /\ UNCHANGED <<failure, status>>
    /\ UNCHANGED <<prog, P, N, idx, exitCode, cancelled, sigBuf, sigClosed,
                   notify, sgpc, sigCount, wpc, werr, sem, wg, resChan,
                   success, launched, child, dlErr,
                   fname, arg, ret>>

\* dlCtx := WithTimeout(mainCtx); cmd.Run() of exec.CommandContext(dlCtx):
\* Start returns dlCtx.Err() without starting a process when dlCtx is
\* already done (mainCtx cancelled); otherwise the process starts, or
\* cannot be started.  A Run that fails here is followed by dlCancel() and
\* the recording of the failure.
to_launch ==
    /\ prog = "batch_timeout" /\ mainpc = "launch"
    /\ \/ /\ ~cancelled
          /\ launched' = [launched EXCEPT ![idx] = @ + 1]
          /\ status' = [status EXCEPT ![idx] = "running"]
          /\ child' = "running"
          /\ mainpc' = "wait"
          /\ UNCHANGED <<failure, idx>>
       \/ /\ failure' = Append(failure,
                 timeoutFailure(idx, RunStartFailed,
                                dlCancel(IF cancelled THEN "Canceled" ELSE "nil")))
          /\ status' = [status EXCEPT ![idx] = "failed"]
          /\ idx' = idx + 1
          /\ mainpc' = IF idx = N THEN "stop" ELSE "check"
          /\ UNCHANGED <<launched, child>>
    /\ UNCHANGED <<prog, P, N, exitCode, cancelled, sigBuf, sigClosed, notify,
                   sgpc, sigCount, wpc, werr, sem, wg, resChan, success, dlErr,
                   fname, arg, ret>>

\* individualDownloadTimeout elapses while the process runs
to_deadline ==
    /\ prog = "batch_timeout" /\ mainpc = "wait"
    /\ child = "running"
    /\ dlErr = "nil"
    /\ dlErr' = "DeadlineExceeded"
    /\ UNCHANGED <<prog, P, N, mainpc, idx, exitCode, cancelled, sigBuf,
                   sigClosed, notify, sgpc, sigCount, wpc, werr, sem, wg,
                   resChan, failure, success, launched, status, child,
                   fname, arg, ret>>

to_wait_retriesOnFailure ==
    /\ prog = "batch_timeout" /\ mainpc = "wait"
    /\ \E res \in RunResults(DlfastCodes) :
         IF res.kind = "nil"
           THEN /\ status' = [status EXCEPT ![idx] = "succeeded"]
                /\ success' = Append(success, idx)
                /\ idx' = idx + 1
                /\ mainpc' = IF idx = N THEN "stop" ELSE "check"
           ELSE /\ status' = [status EXCEPT ![idx] = "pending"]
                /\ mainpc' = "check"
                /\ UNCHANGED <<success, idx>>
    /\ child' = "none"
    /\ dlErr' = "nil"
    /\ UNCHANGED <<prog, P, N, exitCode, cancelled, sigBuf, sigClosed, notify,
                   sgpc, sigCount, wpc, werr, sem, wg, resChan, launched,
                   failure, fname, arg, ret>>

\* cmd.Run() returns (the process exited, or was killed because dlCtx is
\* done), dlCancel() is called, and the result is recorded
to_wait ==
    /\ prog = "batch_timeout" /\ mainpc = "wait"
    /\ \E res \in RunResults(DlfastCodes) :
         IF res.kind = "nil"
           THEN /\ status' = [status EXCEPT ![idx] = "succeeded"]
                /\ success' = Append(success, idx)
                /\ UNCHANGED failure
           ELSE /\ status' = [status EXCEPT ![idx] = "failed"]
                /\ failure' = Append(failure, timeoutFailure(idx, res, dlCancel(dlErr)))
                /\ UNCHANGED success
    /\ child' = "none"
    /\ dlErr' = "nil"
    /\ idx' = idx + 1
    /\ mainpc' = IF idx = N THEN "stop" ELSE "check"
    /\ UNCHANGED <<prog, P, N, exitCode, cancelled, sigBuf, sigClosed, notify,
                   sgpc, sigCount, wpc, werr, sem, wg, resChan, launched,
                   fname, arg, ret>>

\* signal.Stop(sigChan)
to_stop ==
    /\ prog = "batch_timeout" /\ mainpc = "stop"
    /\ notify' = FALSE
    /\ mainpc' = "summary"
    /\ UNCHANGED <<prog, P, N, idx, exitCode, cancelled, sigBuf, sigClosed,
                   sgpc, sigCount, wpc, werr, sem, wg, resChan, failure,
                   success, launched, status, child, dlErr,
                   fname, arg, ret>>

\* exit status chosen after the summary (part_001:150-159)
timeoutExitCode(ctxCancelled, nSuccess, nFailure, nUrls) ==
    IF ctxCancelled /\ nSuccess < nUrls THEN 130
    ELSE IF nFailure > 0 THEN 1
    ELSE 0

to_summary ==
    /\ prog = "batch_timeout" /\ mainpc = "summary"
    /\ exitCode' = timeoutExitCode(cancelled, Len(success), Len(failure), N)
    /\ mainpc' = "exited"
    /\ UNCHANGED <<prog, P, N, idx, cancelled, sigBuf, sigClosed, notify,
                   sgpc, sigCount, wpc, werr, sem, wg, resChan, failure,
                   success, launched, status, child, dlErr,
                   fname, arg, ret>>

Next ==
    \/ Interrupt
    \/ SignalReceive
    \/ SignalCancel
    \/ dlfast_make
    \/ dlfast_spawn
    \/ \E i \in 1..N : dlfast_worker(i)
    \/ dlfast_wait
    \/ dlfast_return
    \/ yt_flags
    \/ yt_spawn
    \/ \E i \in 1..N : yt_worker(i)
    \/ yt_wait
    \/ yt_summary
    \/ seq_launch
    \/ seq_wait
    \/ seq_summary
    \/ plain_launch
    \/ plain_wait
    \/ plain_summary
    \/ sig_check
    \/ sig_launch
    \/ sig_wait
    \/ sig_stop
    \/ sig_summary
    \/ to_check
    \/ to_launch
    \/ to_deadline
    \/ to_wait
    \/ to_stop
    \/ to_summary

Spec == Init /\ [][Next]_vars

\* ======================================================================
\* Outcome classification of dlfast (dlfast.go:340-371, 408-454, 523-530)
\* ======================================================================
\* A run of dlfast in which no signal arrives, followed from the results of
\* the tasks' cmd.Run() calls to the process exit status.

\* exit statuses of aria2c that downloadFile tells apart, and one it does not
ClassifyCodes == {0, 1, 3, 9, 28}

ClassifyResults == RunResults(ClassifyCodes) \cup {RunStartFailed}

\* arg[i] is what cmd.Run() returns for download i
InitClassify ==
    /\ prog = "dlfast"
    /\ N \in 1..MaxTasks
    /\ P = 1
    /\ mainpc = "classify"
    /\ idx = 1
    /\ exitCode = -1
    /\ cancelled = FALSE
    /\ sigBuf = 0
    /\ sigClosed = FALSE
    /\ notify = TRUE
    /\ sgpc = "wait"
    /\ sigCount = 0
    /\ wpc = [i \in 1..N |-> "unspawned"]
    /\ werr = [i \in 1..N |-> NoErr]
    /\ sem = 0
    /\ wg = 0
    /\ resChan = <<>>
    /\ failure = <<>>
    /\ success = <<>>
    /\ launched = [i \in 1..N |-> 0]
    /\ status = [i \in 1..N |-> "pending"]
    /\ child = "none"
    /\ dlErr = "nil"
    /\ fname = [i \in 1..N |-> ""]
    /\ arg \in [1..N -> ClassifyResults]
    /\ ret = <<>>

\* what the workers leave in errChan: one wrapped error per download whose
\* downloadFile error is neither nil nor context.Canceled
RECURSIVE collectErrors(_, _)
collectErrors(errs, i) ==
    IF i = 0 THEN <<>>
    ELSE IF errs[i] = NoErr \/ errorsIs(errs[i], "Canceled")
           THEN collectErrors(errs, i - 1)
           ELSE Append(collectErrors(errs, i - 1),
                       [index |-> i, err |-> ErrorfW("download %d failed: %w", errs[i])])

\* the run from the cmd.Run() results to os.Exit
classify_run ==
    /\ mainpc = "classify"
    /\ LET errs == [i \in 1..N |-> downloadFileResult(arg[i], cancelled)]
           downloadErrors == collectErrors(errs, N)
           err == runDownloadsResult(cancelled, downloadErrors)
       IN  /\ ret' = [errs |-> errs, downloadErrors |-> downloadErrors, err |-> err]
           /\ failure' = downloadErrors
           /\ status' = [i \in 1..N |-> IF errs[i] = NoErr THEN "succeeded" ELSE "failed"]
           /\ exitCode' = dlfastExitCode(err)
    /\ mainpc' = "exited"
    /\ UNCHANGED <<prog, P, N, idx, cancelled, sigBuf, sigClosed, notify,
                   sgpc, sigCount, wpc, werr, sem, wg, resChan, success,
                   launched, child, dlErr, fname, arg>>

NextClassify == classify_run

SpecClassify == InitClassify /\ [][NextClassify]_vars

\* ======================================================================
\* File names (dlfast.go:142-195)
\* ======================================================================
\* A string is the sequence of its characters; a generated name is the
\* sequence of its fixed text and its time stamp.

\* longest input string tried
MaxLen == 3

\* latest clock reading (seconds) tried
MaxClock == 2

Clock == 1..MaxClock

\* characters of the input strings: letters in both cases, space, dot, tab,
\* the separator, and another of the characters dangerousCharsRe matches
Chars == {"a", "c", "o", "N", " ", ".", "\t", "/", ":"}

RECURSIVE StringsUpTo(_)
StringsUpTo(n) ==
    IF n = 0 THEN {<<>>}
    ELSE LET shorter == StringsUpTo(n - 1)
         IN  shorter \cup {Append(s, ch) : s \in {t \in shorter : Len(t) = n - 1}, ch \in Chars}

\* dangerousCharsRe = `[<>:"/\\|?*]`
DangerousChars == {"<", ">", ":", "\"", "/", "\\", "|", "?", "*"}

\* dangerousCharsRe.ReplaceAllString(filename, "_")
ReplaceDangerous(s) ==
    [k \in DOMAIN s |-> IF s[k] \in DangerousChars THEN "_" ELSE s[k]]

RECURSIVE TrimLeft(_, _)
TrimLeft(s, cutset) ==
    IF s # <<>> /\ Head(s) \in cutset THEN TrimLeft(Tail(s), cutset) ELSE s

RECURSIVE TrimRight(_, _)
TrimRight(s, cutset) ==
    IF s # <<>> /\ s[Len(s)] \in cutset
      THEN TrimRight(SubSeq(s, 1, Len(s) - 1), cutset)
      ELSE s

\* strings.Trim(s, cutset)
Trim(s, cutset) == TrimRight(TrimLeft(s, cutset), cutset)

\* strings.ToUpper
ToUpper(s) ==
    [k \in DOMAIN s |->
        CASE s[k] = "a" -> "A"
          [] s[k] = "c" -> "C"
          [] s[k] = "o" -> "O"
          [] s[k] = "n" -> "N"
          [] OTHER      -> s[k]]

ReservedNames ==
    {<<"C", "O", "N">>, <<"P", "R", "N">>, <<"A", "U", "X">>, <<"N", "U", "L">>}
        \cup {<<"C", "O", "M", d>> : d \in {"1", "2", "3", "4", "5", "6", "7", "8", "9"}}
        \cup {<<"L", "P", "T", d>> : d \in {"1", "2", "3", "4", "5", "6", "7", "8", "9"}}

isReservedName(name) == ToUpper(name) \in ReservedNames

\* time.Now().Format(...): the text of the clock reading
Stamp(now) == ToString(now)

sanitizeFilename_trimsSpacesOnly(filename, now) ==
    LET cleaned == Trim(ReplaceDangerous(filename), {" "})
    IN  IF cleaned = <<>> \/ isReservedName(cleaned)
          THEN <<"download_", Stamp(now)>>
          ELSE cleaned

sanitizeFilename(filename, now) ==
    LET cleaned == Trim(ReplaceDangerous(filename), {" ", "."})
    IN  IF cleaned = <<>> \/ isReservedName(cleaned)
          THEN <<"download_", Stamp(now)>>
          ELSE cleaned

\* index of the last "/" of s, 0 if it has none
RECURSIVE LastSlash(_)
LastSlash(s) ==
    IF s = <<>> THEN 0
    ELSE IF s[Len(s)] = "/" THEN Len(s)
    ELSE LastSlash(SubSeq(s, 1, Len(s) - 1))

\* filepath.Base(path)
Base(path) ==
    IF path = <<>> THEN <<".">>
    ELSE LET p == TrimRight(path, {"/"})
         IN  IF p = <<>> THEN <<"/">>
             ELSE SubSeq(p, LastSlash(p) + 1, Len(p))

\* a parsed URL: ok is FALSE when url.Parse fails
URL(ok, path, host) == [ok |-> ok, path |-> path, host |-> host]

inferFilenameFromURL(u, now) ==
    IF ~u.ok THEN <<"download_error_", Stamp(now)>>
    ELSE LET path == IF u.path # <<>> /\ u.path[Len(u.path)] = "/" /\ Len(u.path) > 1
                       THEN SubSeq(u.path, 1, Len(u.path) - 1)
                       ELSE u.path
             filename == Base(path)
         IN  IF filename \in {<<>>, <<".">>, <<"/">>}
               THEN IF u.host # <<>>
                      THEN <<"download_from_">> \o sanitizeFilename(u.host, now)
                               \o <<"_", Stamp(now)>>
                      ELSE <<"downloaded_file_", Stamp(now)>>
               ELSE sanitizeFilename(filename, now)

\* everything of the model's state that a function harness leaves alone
HarnessIdle(p, par, n, pc) ==
    /\ prog = p
    /\ N = n
    /\ P = par
    /\ mainpc = pc
    /\ idx = 1
    /\ exitCode = -1
    /\ cancelled = FALSE
    /\ sigBuf = 0
    /\ sigClosed = FALSE
    /\ notify = FALSE
    /\ sgpc = "none"
    /\ sigCount = 0
    /\ wpc = [i \in 1..n |-> "unspawned"]
    /\ werr = [i \in 1..n |-> NoErr]
    /\ sem = 0
    /\ wg = 0
    /\ resChan = <<>>
    /\ failure = <<>>
    /\ success = <<>>
    /\ launched = [i \in 1..n |-> 0]
    /\ status = [i \in 1..n |-> "pending"]
    /\ child = "none"
    /\ dlErr = "nil"
    /\ fname = [i \in 1..n |-> ""]

HarnessVars == <<prog, P, N, mainpc, idx, exitCode, cancelled, sigBuf,
                 sigClosed, notify, sgpc, sigCount, wpc, werr, sem, wg,
                 resChan, failure, success, launched, status, child, dlErr,
                 fname>>

\* detectFilename after a response arrived: header is what
\* parseContentDisposition returned for it ("" when there is no usable
\* Content-Disposition filename)
detectFilenameResult(header, u, now) ==
    IF header # <<>> THEN sanitizeFilename(header, now)
    ELSE inferFilenameFromURL(u, now)

\* the URL used when the string under test is not part of the URL
PlainURL == URL(TRUE, <<"/", "a">>, <<"h">>)

\* what the string under test is: sanitizeFilename's argument, the header's
\* filename, the URL's path, the URL's host (with an empty path), or a URL
\* that url.Parse rejects
NameCases == {"sanitize", "header", "path", "host", "unparsable"}

InitNames ==
    /\ HarnessIdle("dlfast", 1, 1, "name")
    /\ arg \in [case : NameCases, s : StringsUpTo(MaxLen), now : Clock]
    /\ ret = <<>>

\* sanitizeFilename(s)
names_sanitize ==
    /\ mainpc = "name" /\ ret = <<>>
    /\ arg.case = "sanitize"
    /\ ret' = [name |-> sanitizeFilename(arg.s, arg.now)]
    /\ UNCHANGED <<HarnessVars, arg>>

\* downloadFile's filename when the probe got a response with header s
names_detect ==
    /\ mainpc = "name" /\ ret = <<>>
    /\ arg.case = "header"
    /\ ret' = [name |-> detectFilenameResult(arg.s, PlainURL, arg.now)]
    /\ UNCHANGED <<HarnessVars, arg>>

\* downloadFile's filename when it comes from the URL (the probe failed, or
\* its response named no file)
names_infer ==
    /\ mainpc = "name" /\ ret = <<>>
    /\ arg.case \in {"path", "host", "unparsable"}
    /\ LET u == CASE arg.case = "path" -> URL(TRUE, arg.s, <<"h">>)
                  [] arg.case = "host" -> URL(TRUE, <<>>, arg.s)
                  [] OTHER             -> URL(FALSE, <<>>, <<>>)
       IN  ret' = [name |-> inferFilenameFromURL(u, arg.now)]
    /\ UNCHANGED <<HarnessVars, arg>>

NextNames == names_sanitize \/ names_detect \/ names_infer

SpecNames == InitNames /\ [][NextNames]_vars

\* ======================================================================
\* Destination resolution (dlfast.go:259-297, part_003:30-79)
\* ======================================================================
\* A path is the sequence of its segments below the root.  A destination
\* hint is a path as typed: absolute or relative to the working directory,
\* with or without a trailing separator; the empty hint is no segment,
\* relative, no separator.

\* most segments of a destination hint
MaxSegs == 2

SegNames == {"a", "b"}

RECURSIVE PathsUpTo(_)
PathsUpTo(n) ==
    IF n = 0 THEN {<<>>}
    ELSE LET shorter == PathsUpTo(n - 1)
         IN  shorter \cup {Append(q, x) : q \in {t \in shorter : Len(t) = n - 1}, x \in SegNames}

Root == <<>>
Cwd  == <<"cwd">>

EmptyHint == [abs |-> FALSE, segs |-> <<>>, slash |-> FALSE]

\* the hints that are strings: "/" is absolute with no segment, and a
\* relative hint with no segment is the empty string
Hints ==
    {h \in [abs : BOOLEAN, segs : PathsUpTo(MaxSegs), slash : BOOLEAN] :
        h.segs = <<>> => (h.slash = h.abs)}

\* filepath.Abs(destination): cleaned, so without the trailing separator
Abs(h) == IF h.abs THEN h.segs ELSE Cwd \o h.segs

\* strings.HasSuffix(destination, "/")
HasSuffixSep(h) == h.slash

\* directories that may exist besides the root and the working directory
ExtraDirs == {<<"a">>, <<"cwd", "a">>, <<"cwd", "a", "b">>}

\* every directory of ds has its parent in ds, or directly below the root
\* or the working directory
ParentClosed(ds) ==
    \A d \in ds : SubSeq(d, 1, Len(d) - 1) \in ds \cup {Root, Cwd}

\* the locators tried: a file path, a root path, an empty path, and a
\* string url.Parse rejects
Locators ==
    {URL(TRUE, <<"/", "a">>, <<"h">>), URL(TRUE, <<"/">>, <<"h">>),
     URL(TRUE, <<>>, <<"h">>), URL(FALSE, <<>>, <<>>)}

\* setupDestination of dlfast.go up to MkdirAll: the target directory, or
\* an error
setupDestination(h, dirs) ==
    IF h = EmptyHint THEN [err |-> "nil", dir |-> Cwd]
    ELSE LET absDest == Abs(h)
             isDir == absDest \in dirs \/ HasSuffixSep(h)
         IN  IF isDir THEN [err |-> "nil", dir |-> absDest]
             ELSE [err |-> "destination must be a directory", dir |-> Root]

\* dlfast.go: directory from setupDestination, filename from downloadFile
\* (the probe fails or names no file: inferFilenameFromURL)
resolve_dlfast(h, dirs, u, now) ==
    LET d == setupDestination(h, dirs)
    IN  IF d.err # "nil" THEN [err |-> d.err, dir |-> Root, out |-> <<>>, file |-> <<>>]
        ELSE [err |-> "nil", dir |-> d.dir, out |-> <<>>,
              file |-> inferFilenameFromURL(u, now)]

\* the earlier dlfast main (part_003:30-72): --dir, and --out when the hint
\* names a file; without --out aria2c names the file itself
resolve_old(h, dirs) ==
    IF h = EmptyHint THEN [err |-> "nil", dir |-> Cwd, out |-> <<>>, file |-> <<>>]
    ELSE LET absDest == Abs(h)
         IN  IF HasSuffixSep(h) \/ absDest \in dirs
               THEN [err |-> "nil", dir |-> absDest, out |-> <<>>, file |-> <<>>]
               ELSE [err |-> "nil",
                     dir |-> SubSeq(absDest, 1, Len(absDest) - 1),
                     out |-> <<absDest[Len(absDest)]>>,
                     file |-> <<absDest[Len(absDest)]>>]

\* os.MkdirAll(targetDir): the directory and its parents exist afterwards
MkdirAll(dirs, dir) == dirs \cup {SubSeq(dir, 1, k) : k \in 0..Len(dir)}

InitResolve ==
    /\ \E impl \in {"dlfast", "dlfast_old"} : HarnessIdle(impl, 1, 1, "resolve")
    /\ arg \in [hint : Hints, dirs : {ds \in SUBSET ExtraDirs : ParentClosed(ds)},
                 url : Locators]
    /\ ret = <<>>

\* one resolution of arg.url with arg.hint, at clock reading now; the
\* directories it leaves are those the next resolution finds
resolve_run(now) ==
    /\ mainpc = "resolve"
    /\ Len(ret) < 2
    /\ ret # <<>> => now >= ret[Len(ret)].at
    /\ LET dirs == {Root, Cwd} \cup (IF ret = <<>> THEN arg.dirs ELSE ret[Len(ret)].dirs)
           r == IF prog = "dlfast"
                  THEN resolve_dlfast(arg.hint, dirs, arg.url, now)
                  ELSE resolve_old(arg.hint, dirs)
       IN  ret' = Append(ret, [at |-> now, found |-> dirs, res |-> r,
                               dirs |-> IF r.err = "nil"
                                          THEN MkdirAll(dirs, r.dir)
                                          ELSE dirs])
    /\ UNCHANGED <<HarnessVars, arg>>

NextResolve == \E now \in Clock : resolve_run(now)

SpecResolve == InitResolve /\ [][NextResolve]_vars

\* ======================================================================
\* URL validation of dlfast (dlfast.go:236-256, 374-393)
\* ======================================================================

\* a command-line URL as validateURL sees it: the empty string, a string
\* url.Parse rejects, or a parsed URL with its scheme and host
UrlInputs ==
    {[empty |-> TRUE, ok |-> TRUE, scheme |-> "", host |-> ""],
     [empty |-> FALSE, ok |-> FALSE, scheme |-> "", host |-> ""]}
        \cup [empty : {FALSE}, ok : {TRUE},
              scheme : {"http", "https", "ftp", "file"}, host : {"", "h"}]

validateURL(u) ==
    IF u.empty THEN "URL cannot be empty"
    ELSE IF ~u.ok THEN "invalid URL format"
    ELSE IF u.scheme # "http" /\ u.scheme # "https" /\ u.scheme # "ftp"
      THEN "unsupported URL scheme"
    ELSE IF u.host = "" THEN "URL must contain a host"
    ELSE "nil"

\* arg[i] is the i-th URL of the command line
InitValidate ==
    /\ \E n \in 1..LiveTasks : HarnessIdle("dlfast", 1, n, "validate")
    /\ arg \in [1..N -> UrlInputs]
    /\ ret = <<>>

dlfast_validate_firstOnly ==
    /\ prog = "dlfast" /\ mainpc = "validate"
    /\ IF validateURL(arg[1]) # "nil"
         THEN mainpc' = "exited" /\ exitCode' = 1
         ELSE mainpc' = "make" /\ UNCHANGED exitCode
    /\ UNCHANGED <<prog, P, N, idx, cancelled, sigBuf, sigClosed, notify,
                   sgpc, sigCount, wpc, werr, sem, wg, resChan, failure,
                   success, launched, status, child, dlErr,
                   fname, arg, ret>>

\* runDownloads after setupDestination: "for _, url := range urls" returns
\* the first validateURL error, which main turns into exit status 1;
\* otherwise the downloads are set up
dlfast_validate ==
    /\ prog = "dlfast" /\ mainpc = "validate"
    /\ IF \E i \in 1..N : validateURL(arg[i]) # "nil"
         THEN mainpc' = "exited" /\ exitCode' = 1
         ELSE mainpc' = "make" /\ UNCHANGED exitCode
    /\ UNCHANGED <<prog, P, N, idx, cancelled, sigBuf, sigClosed, notify,
                   sgpc, sigCount, wpc, werr, sem, wg, resChan, failure,
                   success, launched, status, child, dlErr,
                   fname, arg, ret>>

\* dlfast from validation on, with no signal arriving
NextValidate ==
    \/ dlfast_validate
    \/ dlfast_make
    \/ dlfast_spawn
    \/ \E i \in 1..N : dlfast_worker(i)
    \/ dlfast_wait
    \/ dlfast_return

SpecValidate == InitValidate /\ [][NextValidate]_vars

\* ======================================================================
\* Argument lists of yt_batch's workers (yt_batch.go:139-155, 194-217)
\* ======================================================================
\* A slice is its length and the capacity of its backing array.  Only the
\* element at index len(baseCmdArgs) matters: it is where every worker's
\* append(baseArgs, url) puts the URL.

NilSlice == [len |-> 0, cap |-> 0]

\* runtime.growslice for a []string of at most 8 elements: the doubled
\* capacity, or the needed length if that is more (16*k bytes is a malloc
\* size class for k <= 8, so nothing is rounded up)
growslice(oldCap, newLen) ==
    IF newLen > 2 * oldCap THEN newLen ELSE 2 * oldCap

\* append(sl, k elements)
appendN(sl, k) ==
    IF sl.len + k <= sl.cap
      THEN [len |-> sl.len + k, cap |-> sl.cap]
      ELSE [len |-> sl.len + k, cap |-> growslice(sl.cap, sl.len + k)]

\* main's construction of baseCmdArgs from the flags
baseCmdArgs(flags) ==
    LET a == IF flags.d THEN appendN(NilSlice, 2) ELSE NilSlice
        b == IF flags.cookies THEN appendN(a, 2) ELSE a
    IN  IF flags.socm THEN appendN(b, 1) ELSE appendN(b, 2)

\* append(baseArgs, url) writes into baseArgs' backing array when it has
\* room, and into a fresh array otherwise
appendShares(sl) == sl.len < sl.cap

\* arg: which of -d, -cookies-from, -socm are given.  ret.slot: the URL in
\* the element after baseCmdArgs in its backing array (0: none); ret.args[i]:
\* the URL in the argument list worker i gave to exec.Command (0: not yet).
InitArgs ==
    /\ \E par \in 1..MaxParallel, n \in 1..MaxTasks :
           HarnessIdle("yt_batch", par, n, "spawn")
    /\ arg \in [d : BOOLEAN, cookies : BOOLEAN, socm : BOOLEAN]
    /\ ret = [slot |-> 0, args |-> [i \in 1..N |-> 0]]

\* main: wg.Add(1); sem <- struct{}{}; go downloadURL(url, baseCmdArgs, ...)
args_spawn ==
    /\ prog = "yt_batch" /\ mainpc = "spawn"
    /\ chanCanSend(sem, P)
    /\ sem' = sem + 1
    /\ wg' = wg + 1
    /\ wpc' = [wpc EXCEPT ![idx] = "append"]
    /\ idx' = idx + 1
    /\ mainpc' = IF idx = N THEN "wait" ELSE "spawn"
    /\ UNCHANGED <<prog, P, N, exitCode, cancelled, sigBuf, sigClosed, notify,
                   sgpc, sigCount, werr, resChan, failure, success, launched,
                   status, child, dlErr, fname, arg, ret>>

\* downloadURL: fullArgs := append(baseArgs, url)
args_append(i) ==
    /\ prog = "yt_batch" /\ wpc[i] = "append"
    /\ ret' = IF appendShares(baseCmdArgs(arg))
                THEN [ret EXCEPT !.slot = i]
                ELSE ret
    /\ wpc' = [wpc EXCEPT ![i] = "exec"]
    /\ UNCHANGED <<prog, P, N, mainpc, idx, exitCode, cancelled, sigBuf,
                   sigClosed, notify, sgpc, sigCount, werr, sem, wg, resChan,
                   failure, success, launched, status, child, dlErr, fname,
                   arg>>

\* downloadURL: exec.Command("ytmax", fullArgs...) copies fullArgs, whose
\* last element is in the shared array or in the worker's own; the command
\* runs, and the worker releases its slot and returns
args_exec(i) ==
    /\ prog = "yt_batch" /\ wpc[i] = "exec"
    /\ ret' = [ret EXCEPT !.args[i] =
                  IF appendShares(baseCmdArgs(arg)) THEN ret.slot ELSE i]
    /\ launched' = [launched EXCEPT ![i] = @ + 1]
    /\ sem' = sem - 1
    /\ wg' = wg - 1
    /\ wpc' = [wpc EXCEPT ![i] = "done"]
    /\ UNCHANGED <<prog, P, N, mainpc, idx, exitCode, cancelled, sigBuf,
                   sigClosed, notify, sgpc, sigCount, werr, resChan, failure,
                   success, status, child, dlErr, fname, arg>>

NextArgs ==
    \/ args_spawn
    \/ \E i \in 1..N : args_append(i)
    \/ \E i \in 1..N : args_exec(i)

SpecArgs == InitArgs /\ [][NextArgs]_vars

\* ======================================================================
\* Fair runs
\* ======================================================================

\* runs of at most LiveTasks URLs, for the properties checked under fairness
InitLive == Init /\ N <= LiveTasks

\* Every goroutine that can take a step eventually takes it: the main
\* goroutine, the signal goroutine and the workers, at every point where
\* they do not wait for an external process.
SchedulerFairness ==
    /\ WF_vars(SignalReceive) /\ WF_vars(SignalCancel)
    /\ WF_vars(dlfast_make) /\ WF_vars(dlfast_spawn)
    /\ WF_vars(dlfast_wait) /\ WF_vars(dlfast_return)
    /\ WF_vars(yt_flags) /\ WF_vars(yt_spawn)
    /\ WF_vars(yt_wait) /\ WF_vars(yt_summary)
    /\ WF_vars(seq_launch) /\ WF_vars(seq_summary)
    /\ WF_vars(plain_launch) /\ WF_vars(plain_summary)
    /\ WF_vars(sig_check) /\ WF_vars(sig_launch)
    /\ WF_vars(sig_stop) /\ WF_vars(sig_summary)
    /\ WF_vars(to_check) /\ WF_vars(to_launch)
    /\ WF_vars(to_stop) /\ WF_vars(to_summary)
    /\ \A i \in 1..LiveTasks :
         /\ WF_vars(i <= N /\ dlfast_acquire(i))
         /\ WF_vars(i <= N /\ dlfast_probe(i))
         /\ WF_vars(i <= N /\ dlfast_start(i))
         /\ WF_vars(i <= N /\ dlfast_ret(i))
         /\ WF_vars(i <= N /\ yt_start(i))
         /\ WF_vars(i <= N /\ yt_ret(i))

\* A process started with exec.CommandContext is killed once its context is
\* done, and cmd.Run then returns; the timer of context.WithTimeout fires.
KillFairness ==
    /\ \A i \in 1..LiveTasks : WF_vars(i <= N /\ cancelled /\ dlfast_cmdExit(i))
    /\ WF_vars(to_deadline)
    /\ WF_vars(dlErr # "nil" /\ to_wait)

\* Every external command exits by itself sooner or later.
ExitFairness ==
    /\ \A i \in 1..LiveTasks :
         /\ WF_vars(i <= N /\ dlfast_cmdExit(i))
         /\ WF_vars(i <= N /\ yt_cmdExit(i))
    /\ WF_vars(seq_wait) /\ WF_vars(plain_wait)
    /\ WF_vars(sig_wait) /\ WF_vars(to_wait)

\* fair scheduling, external commands free to run forever
KillSpec == InitLive /\ [][Next]_vars /\ SchedulerFairness /\ KillFairness

\* fair scheduling, every external command eventually exits
LiveSpec == InitLive /\ [][Next]_vars /\ SchedulerFairness /\ KillFairness
                /\ ExitFairness

\* ======================================================================
\* Properties
\* ======================================================================

\* task i holds a semaphore slot: its worker is between the acquire and the
\* deferred release
Holding(i) == wpc[i] \in {"probe", "start", "run", "ret"}

NumHolding == Cardinality({i \in 1..N : Holding(i)})

\* C1: in dlfast and in the concurrent yt_batch, with parallelism P >= 1 the
\* number of tasks between semaphore acquire and release never exceeds P.
C1_RunningWithinParallelism ==
    (prog \in ConcurrentProgs /\ P >= 1) => NumHolding <= P

\* P tasks hold all the slots while another worker waits for one
C1_Witness ==
    /\ prog = "dlfast" /\ P >= 1
    /\ NumHolding = P
    /\ \E i \in 1..N : wpc[i] = "acquire"
    /\ \E i \in 1..N : wpc[i] = "run"

\* C2: a parallelism below 1 is rejected before any task starts: no worker
\* is launched, nothing is run, and the run ends with an error (exit status
\* 1) instead of panicking or hanging.
C2_NonPositiveParallelismRejected ==
    (prog \in ConcurrentProgs /\ P < 1) =>
        /\ \A i \in 1..N : wpc[i] = "unspawned" /\ launched[i] = 0
        /\ mainpc # "panicked"
        /\ mainpc # "wait"
        /\ (Terminated => exitCode = 1)

\* C3: when dlfast is cancelled by a signal while some task has not
\* completed, the process exits with status 130.
C3_InterruptedExit130 ==
    (/\ prog = "dlfast"
     /\ mainpc = "exited"
     /\ cancelled
     /\ \E i \in 1..N : status[i] = "cancelled")
        => exitCode = 130

\* C4: yt_batch (both versions), with no signal: a failed URL makes the
\* exit status 1, and the status is 0 only when every download succeeded.
C4_FailureExitsNonZero ==
    (/\ prog \in {"yt_batch", "yt_seq"}
     /\ P >= 1
     /\ mainpc = "exited"
     /\ sigCount = 0)
        => /\ (\E i \in 1..N : status[i] = "failed") => exitCode = 1
           /\ exitCode = 0 => \A i \in 1..N : status[i] = "succeeded"

\* C5: when every retrieval command exited 0 and no signal was ever
\* delivered, the exit status is 0.
C5_AllSucceededExitZero ==
    (/\ prog \in {"dlfast", "batch_sig", "batch_timeout"}
     /\ mainpc = "exited"
     /\ sigCount = 0
     /\ \A i \in 1..N : status[i] = "succeeded")
        => exitCode = 0

\* the reasons recorded for a URL skipped because the batch was interrupted
SkipReasons == {"skipped due to interruption", "skipped due to batch interruption"}

\* C6: in the dlfast_batch variants with signal handling, a task is skipped
\* only under cancellation, together with every task after it; each skipped
\* task has exactly one failure entry with an interruption reason, none of
\* them was launched, and the process then exits with status 130.
C6_CancelledBatchSkipsRest ==
    (prog \in {"batch_sig", "batch_timeout"}) =>
        \A i \in 1..N :
            status[i] = "skipped" =>
                /\ cancelled
                /\ \A j \in i..N : status[j] = "skipped" /\ launched[j] = 0
                /\ Cardinality({k \in 1..Len(failure) : failure[k].url = i}) = 1
                /\ \A k \in 1..Len(failure) :
                       failure[k].url = i => failure[k].reason \in SkipReasons
                /\ (mainpc = "exited" => exitCode = 130)

\* cancellation came before the first task: all of several URLs are
\* skipped and the process has exited
C6_Witness ==
    /\ prog = "batch_timeout"
    /\ N >= 2
    /\ \A i \in 1..N : status[i] = "skipped"
    /\ Len(failure) = N
    /\ mainpc = "exited"
    /\ exitCode = 130

\* C7: once cancellation has been triggered, no retrieval command is
\* launched any more.
C7_NoLaunchAfterCancel ==
    [][(prog \in {"dlfast", "batch_sig", "batch_timeout"} /\ cancelled)
          => launched' = launched]_vars

\* C8: after cancellation a dlfast worker waiting for a semaphore slot does
\* not acquire one and go on to its task.
C8_WaiterStopsOnCancel ==
    [][(prog = "dlfast" /\ cancelled)
          => \A i \in 1..N : wpc[i] = "acquire" => wpc'[i] # "probe"]_vars

\* the task a report entry is about
ReportIndex(e) == IF "index" \in DOMAIN e THEN e.index ELSE e.url

\* C9: the failure list and the success list present tasks in input order.
C9_ReportInInputOrder ==
    /\ \A k \in 1..(Len(failure) - 1) :
           ReportIndex(failure[k]) < ReportIndex(failure[k + 1])
    /\ \A k \in 1..(Len(success) - 1) : success[k] < success[k + 1]

\* task i has been granted a slot and started
Admitted(i) == wpc[i] \notin {"unspawned", "acquire"}

\* C10: in the concurrent orchestrators task j is never admitted before an
\* earlier task i.
C10_AdmittedInInputOrder ==
    (prog \in ConcurrentProgs) =>
        \A i, j \in 1..N : (i < j /\ Admitted(j)) => Admitted(i)

\* the retrieval command of task i is running
CommandRunning(i) ==
    IF prog \in ConcurrentProgs THEN wpc[i] = "run"
    ELSE child = "running" /\ idx = i

\* C11: a retrieval command that runs on past the per-task timeout is
\* terminated: in dlfast and in the dlfast_batch timeout variant no command
\* keeps running forever.
C11_OverlongCommandTerminated ==
    \A i \in 1..LiveTasks :
        (prog \in {"dlfast", "batch_timeout"} /\ i <= N /\ CommandRunning(i))
            ~> ~(i <= N /\ CommandRunning(i))

\* C19: once cancellation is triggered the run finishes, whether or not the
\* external commands would exit by themselves.
C19_CancelledBatchFinishes ==
    (prog \in {"dlfast", "batch_sig", "batch_timeout"} /\ P >= 1 /\ cancelled)
        ~> Terminated

\* C12: with no cancellation, downloadFile maps exit 0 to nil, exit 3, 9 and
\* 28 to their three messages, any other unsuccessful exit to the generic
\* error carrying the code, and a command that could not be started to the
\* execution-failed error; and a batch of three in which exactly one
\* command exits 3 and the others succeed ends with two succeeded tasks, one
\* reported failure of the not-found kind, and exit status 1.
C12_OutcomeClassification ==
    ret # <<>> =>
        /\ \A i \in 1..N :
             LET r == arg[i]
                 e == ret.errs[i]
             IN  /\ (r.kind = "nil") => e = NoErr
                 /\ (r.kind = "ExitError" /\ r.code = 3) =>
                        e = Errorf("file not found or access denied")
                 /\ (r.kind = "ExitError" /\ r.code = 9) =>
                        e = Errorf("not enough disk space available")
                 /\ (r.kind = "ExitError" /\ r.code = 28) =>
                        e = Errorf("network timeout or connection refused")
                 /\ (r.kind = "ExitError" /\ r.code \notin {3, 9, 28}) =>
                        e = ErrorfD("aria2c failed with exit code %d", r.code)
                 /\ (r.kind = "other") => e = Errorf("aria2c execution failed")
        /\ (/\ N = 3
            /\ Cardinality({i \in 1..N : arg[i] = RunExit(3)}) = 1
            /\ Cardinality({i \in 1..N : arg[i] = RunOk}) = 2) =>
               /\ Cardinality({i \in 1..N : status[i] = "succeeded"}) = 2
               /\ Len(failure) = 1
               /\ arg[failure[1].index] = RunExit(3)
               /\ failure[1].err.inner = "file not found or access denied"
               /\ exitCode = 1

C12_Witness ==
    /\ ret # <<>>
    /\ arg = <<RunOk, RunExit(3), RunOk>>
    /\ exitCode = 1
    /\ Len(failure) = 1

\* C13: a task's failure does not keep its siblings from running: in a run
\* that ends with no cancellation and had a failed task, every task of the
\* batch was taken up and ended succeeded or failed on its own.
C13_FailureDoesNotAbortSiblings ==
    (mainpc = "exited" /\ ~cancelled /\ \E i \in 1..N : status[i] = "failed") =>
        \A j \in 1..N : status[j] \in {"succeeded", "failed"}

C13_Witness ==
    /\ mainpc = "exited" /\ ~cancelled
    /\ N >= 2
    /\ status[1] = "failed"
    /\ status[2] = "succeeded"

BatchProgs == {"batch_sig", "batch_timeout", "batch_plain"}

\* number of entries of the success and failure lists that are for URL u
TimesRecorded(u) ==
    Cardinality({k \in DOMAIN success : success[k] = u})
        + Cardinality({k \in DOMAIN failure : failure[k].url = u})

\* C14: in every dlfast_batch variant, once the loop is over and the
\* summary is printed, every input URL is in exactly one of the success and
\* failure lists and in it exactly once, so that
\* len(success) + len(failure) = len(urls).
C14_EveryUrlRecordedOnce ==
    (prog \in BatchProgs /\ mainpc \in {"stop", "summary", "exited"}) =>
        /\ Len(success) + Len(failure) = N
        /\ \A u \in 1..N : TimesRecorded(u) = 1

C14_Witness ==
    /\ prog \in BatchProgs /\ mainpc = "exited"
    /\ N = 3
    /\ status = <<"succeeded", "failed", "skipped">>
    /\ Len(success) = 1 /\ Len(failure) = 2

\* C15: in dlfast, when runDownloads has collected errChan, every task that
\* did not succeed (cancelled ones included) has exactly one collected
\* error.
C15_EveryFailureCollected ==
    (prog = "dlfast" /\ mainpc \in {"check", "exited"}) =>
        \A i \in 1..N :
            status[i] # "succeeded" =>
                Cardinality({k \in DOMAIN failure : failure[k].index = i}) = 1

TerminalStatus == {"succeeded", "failed", "skipped", "cancelled"}

\* C16: a task's status only moves forward, pending -> running -> terminal:
\* a task that reached a terminal status keeps that status and is not
\* launched again, a running task does not go back to pending, and no
\* task's command is launched more than once.
C16_StatusOnlyMovesForward ==
    [][\A i \in 1..N :
          /\ status[i] \in TerminalStatus =>
                 (status'[i] = status[i] /\ launched'[i] = launched[i])
          /\ status[i] = "running" => status'[i] # "pending"
          /\ launched'[i] >= launched[i]
          /\ launched'[i] <= 1]_vars

C16_Witness ==
    /\ mainpc = "exited"
    /\ N >= 2
    /\ launched[1] = 1 /\ status[1] = "failed"
    /\ launched[2] = 1 /\ status[2] = "succeeded"

\* C17: cancellation happens at most once and is never undone: the
\* cancelled state is only ever set, by the signal goroutine's single call
\* of cancel, after which that goroutine is finished for good; and a signal
\* that arrives after the first one while the handler is registered leaves
\* the cancelled state, the signal goroutine and the main goroutine as they
\* are (the process is not killed).
C17_CancelOnceAndForAll ==
    [][/\ cancelled => cancelled'
       /\ (cancelled' # cancelled) => (sgpc = "got" /\ sgpc' = "done")
       /\ sgpc = "done" => sgpc' = "done"
       /\ (sigCount' > sigCount /\ sigCount >= 1 /\ notify) =>
              /\ cancelled' = cancelled
              /\ sgpc' = sgpc
              /\ mainpc' = mainpc
              /\ exitCode' = exitCode
              /\ status' = status]_vars

C17_Witness ==
    /\ sigCount = 2
    /\ cancelled /\ sgpc = "done"
    /\ notify /\ Alive
    /\ sigBuf = 1

\* C18: under fair scheduling, when every retrieval command eventually
\* exits, a run of a concurrent orchestrator with P >= 1 does not get
\* stuck: every worker gets a slot, finishes and gives it back, wg.Wait
\* returns and main reaches its return (unless a signal kills the process
\* first).
C18_ConcurrentRunsFinish ==
    (prog \in ConcurrentProgs /\ P >= 1) ~> (mainpc \in {"exited", "killed"})

C18_Witness ==
    /\ prog \in ConcurrentProgs
    /\ P = 1 /\ N = 2
    /\ mainpc = "exited"
    /\ sem = 0 /\ wg = 0
    /\ \A i \in 1..N : wpc[i] = "done" /\ status[i] \in TerminalStatus

\* C20: in dlfast's downloadFile a failed filename probe does not fail the
\* task: whenever a worker leaves the probe it goes on to start aria2c,
\* with no error recorded, still running, and with a filename, which is
\* the URL-derived fallback whenever the probe could only fail.
C20_ProbeFailureFallsBack ==
    [][\A i \in 1..N :
          (prog = "dlfast" /\ wpc[i] = "probe" /\ wpc'[i] # "probe") =>
              /\ wpc'[i] = "start"
              /\ werr'[i] = NoErr
              /\ status'[i] = "running"
              /\ fname'[i] \in {chosenFilename(TRUE), chosenFilename(FALSE)}
              /\ cancelled => fname'[i] = chosenFilename(TRUE)]_vars

C20_Witness ==
    \E i \in 1..N :
        /\ prog = "dlfast"
        /\ fname[i] = chosenFilename(TRUE)
        /\ wpc[i] = "run"
        /\ launched[i] = 1
        /\ ~cancelled

\* C24: in the dlfast_batch timeout variant a failure is recorded as
\* "cancelled as part of batch interruption" only if the batch was cancelled.
C24_CancelledReasonOnlyWhenCancelled ==
    prog = "batch_timeout" =>
        \A k \in DOMAIN failure :
            failure[k].reason = "failed: download cancelled as part of batch interruption"
                => cancelled

\* the result channel has been closed: main is past wg.Wait(); close(...)
ChannelClosed ==
    \/ prog = "dlfast" /\ mainpc \in {"check", "exited"}
    \/ prog = "yt_batch" /\ (mainpc = "summary" \/ (mainpc = "exited" /\ P >= 1))

\* C26: in dlfast and yt_batch the result channel is closed and drained by
\* main only after every worker has finished: the failure list is written
\* only by main's drain, with wg at 0 and every worker done, and nothing is
\* sent on the channel once it is closed.
C26_AggregationSerialized ==
    [][/\ (prog \in ConcurrentProgs /\ failure' # failure) =>
              /\ wg = 0
              /\ \A i \in 1..N : wpc[i] = "done"
              /\ failure' = resChan
              /\ resChan' = <<>>
       /\ (prog \in ConcurrentProgs /\ ChannelClosed') =>
              /\ \A i \in 1..N : wpc'[i] = "done"
              /\ resChan' = <<>>]_vars

C26_Witness ==
    /\ prog \in ConcurrentProgs
    /\ ChannelClosed
    /\ N >= 2
    /\ Len(failure) = 2

\* C27: in dlfast and yt_batch the semaphore holds exactly one permit per
\* worker that is between its acquire and its release, whatever the
\* outcome of its task, and none when wg.Wait() has returned.
C27_PermitsBalanced ==
    prog \in ConcurrentProgs =>
        /\ sem = NumHolding
        /\ ChannelClosed => sem = 0

C27_Witness ==
    /\ prog \in ConcurrentProgs
    /\ ChannelClosed
    /\ N >= 3
    /\ status[1] = "succeeded" /\ status[2] = "failed" /\ status[3] = "cancelled"
    /\ sem = 0

\* C28: in dlfast and yt_batch the result channel never holds more than N
\* messages, no worker sends more than one, and a worker that is about to
\* report finds room in the channel.
C28_ReportNeverBlocks ==
    prog \in ConcurrentProgs =>
        /\ Len(resChan) <= N
        /\ \A i \in 1..N :
             /\ Cardinality({k \in DOMAIN resChan : resChan[k].index = i}) <= 1
             /\ wpc[i] = "ret" => chanCanSend(Len(resChan), N)

C28_Witness ==
    /\ prog \in ConcurrentProgs
    /\ N >= 2
    /\ Len(resChan) = N - 1
    /\ wpc[N] = "ret" /\ werr[N] # NoErr

Range(s) == {s[k] : k \in DOMAIN s}

Whitespace == {" ", "\t"}

\* C22: for every input string sanitizeFilename returns a name with none of
\* the unsafe characters, with no whitespace or dot at either end, not
\* empty, and not a reserved device name.
C22_SanitizedNameIsClean ==
    (arg # <<>> /\ "case" \in DOMAIN arg /\ arg.case = "sanitize" /\ ret # <<>>) =>
        /\ Range(ret.name) \cap DangerousChars = {}
        /\ ret.name # <<>>
        /\ Head(ret.name) \notin Whitespace \cup {"."}
        /\ ret.name[Len(ret.name)] \notin Whitespace \cup {"."}
        /\ ~isReservedName(ret.name)

\* C30: the filename dlfast chooses, from the Content-Disposition header
\* or from the URL's path or host, holds no path separator and is neither
\* "." nor "..", so Join(targetDir, filename) is a direct child of
\* targetDir.
C30_FilenameStaysInTargetDir ==
    (arg # <<>> /\ "case" \in DOMAIN arg /\ ret # <<>>) =>
        /\ Range(ret.name) \cap {"/", "\\"} = {}
        /\ ret.name \notin {<<>>, <<".">>, <<".", ".">>}

C30_Witness ==
    /\ arg # <<>> /\ "case" \in DOMAIN arg /\ ret # <<>>
    /\ arg.case = "header"
    /\ arg.s = <<".", ".", "/">>
    /\ ret.name = <<"_">>

\* C21: destination resolution follows the three-way rule for every hint:
\* an empty hint gives the working directory and an inferred filename; a
\* hint that names an existing directory or ends with a separator gives
\* that directory, which exists afterwards, and an inferred filename; any
\* other hint gives its parent as the directory and its last segment as
\* the filename, with no error.
C21_ThreeWayDestination ==
    (arg # <<>> /\ "hint" \in DOMAIN arg) =>
        \A k \in DOMAIN ret :
            LET r == ret[k].res
                h == arg.hint
            IN  /\ r.err = "nil"
                /\ IF h = EmptyHint
                     THEN r.dir = Cwd /\ r.out = <<>>
                   ELSE IF Abs(h) \in ret[k].found \/ HasSuffixSep(h)
                     THEN r.dir = Abs(h) /\ r.dir \in ret[k].dirs /\ r.out = <<>>
                   ELSE /\ r.dir = SubSeq(Abs(h), 1, Len(Abs(h)) - 1)
                        /\ r.file = <<Abs(h)[Len(Abs(h))]>>

\* C23: resolving the same locator with the same destination hint twice
\* gives the same directory and the same filename.
C23_ResolutionRepeatable ==
    (arg # <<>> /\ "hint" \in DOMAIN arg /\ Len(ret) = 2) =>
        /\ ret[1].res.err = ret[2].res.err
        /\ ret[1].res.dir = ret[2].res.dir
        /\ ret[1].res.file = ret[2].res.file

\* C29: in dlfast, if any URL of the batch fails validateURL, no worker is
\* spawned, no filename probe is made and no retrieval command is launched
\* for any URL of the batch, and the run ends with an error.
C29_InvalidUrlStopsBatch ==
    (\E i \in 1..N : validateURL(arg[i]) # "nil") =>
        /\ \A i \in 1..N :
             /\ wpc[i] = "unspawned"
             /\ status[i] = "pending"
             /\ fname[i] = ""
             /\ launched[i] = 0
        /\ wg = 0 /\ sem = 0
        /\ mainpc \in {"validate", "exited"}
        /\ mainpc = "exited" => exitCode = 1

C29_Witness ==
    /\ N = 2
    /\ validateURL(arg[1]) = "nil"
    /\ validateURL(arg[2]) = "unsupported URL scheme"
    /\ mainpc = "exited"
    /\ exitCode = 1

\* C25: in yt_batch's concurrent version, the argument list a worker passes
\* to ytmax ends with that worker's own URL, for every combination of the
\* -d, -cookies-from and -socm flags and every interleaving of the workers.
C25_WorkerPassesOwnUrl ==
    \A i \in 1..N : ret.args[i] \in {0, i}
====
